---- MODULE Spec2Model ----
(***************************************************************************)
(* A model of telegram-bot-express (src/index.cjs): the webhook entry      *)
(* point `api`, the update normaliser getMessageFromBody, the classifier   *)
(* getEventName, the "message" listener with its self-forward aggregation  *)
(* (transactionMessages, FORWARD_TIME timers, the flush callback) and the  *)
(* channel_post / callback_query / inline_query / error listeners.         *)
(*                                                                         *)
(* JavaScript strings are tuples of one-character strings, so that         *)
(* startsWith, lastIndexOf and slice are computed as the code computes     *)
(* them.  Time is in milliseconds.                                         *)
(***************************************************************************)
EXTENDS Integers, Sequences, FiniteSets, TLC

VARIABLES
  now,                  \* the clock, in ms
  privateEvents,        \* the private registry: its own keys, in registration order
  publicEvents,         \* the public registry: its own keys, in registration order
  pool,                 \* the webhook bodies the transport may deliver
  updates,              \* one record per update received, in arrival order
  transactionMessages,  \* the Map of line 165: chat id -> {messages, timeoutId}
  timers,               \* the pending setTimeout timers
  nextTimer,            \* the next timer handle
  flushes,              \* the flush callbacks that are suspended at an await
  procs,                \* the listener invocations that are suspended at an await
  calls,                \* every handler invocation, in order
  errors,               \* what the bot's "error" event delivered to onError
  rejections,           \* the listener promises that rejected (nobody awaits them)
  responses,            \* the status sent for each webhook request
  probe                 \* the input and output of a pure function under check

vars == <<now, privateEvents, publicEvents, pool, updates, transactionMessages,
          timers, nextTimer, flushes, procs, calls, errors, rejections,
          responses, probe>>

(***************************************************************************)
(* Program constants and the bounds of the model.                          *)
(***************************************************************************)
FORWARD_TIME == 1000

MaxUpdates == 3
MaxTicks == 5
MaxKeys == 2
TickMs == FORWARD_TIME \div 2
MaxTime == MaxTicks * TickMs

(***************************************************************************)
(* Strings.                                                                *)
(***************************************************************************)
S_text == <<"t","e","x","t">>
S_contact == <<"c","o","n","t","a","c","t">>
S_auth_by_contact == <<"a","u","t","h","_","b","y","_","c","o","n","t","a","c","t">>
S_edited_message_text ==
  <<"e","d","i","t","e","d","_","m","e","s","s","a","g","e","_","t","e","x","t">>
S_reply_to_message ==
  <<"r","e","p","l","y","_","t","o","_","m","e","s","s","a","g","e">>
S_mention == <<"m","e","n","t","i","o","n">>
S_bot_command == <<"b","o","t","_","c","o","m","m","a","n","d">>
S_message_forwards ==
  <<"m","e","s","s","a","g","e","_","f","o","r","w","a","r","d","s">>
S_channel_post == <<"c","h","a","n","n","e","l","_","p","o","s","t">>
S_inline_query == <<"i","n","l","i","n","e","_","q","u","e","r","y">>
S_voice == <<"v","o","i","c","e">>
S_audio == <<"a","u","d","i","o">>
S_document == <<"d","o","c","u","m","e","n","t">>
S_photo == <<"p","h","o","t","o">>
S_video == <<"v","i","d","e","o">>
S_video_note == <<"v","i","d","e","o","_","n","o","t","e">>
S_undefined == <<"u","n","d","e","f","i","n","e","d">>

\* String.prototype.startsWith with a one-character argument
StartsWith(str, c) == Len(str) >= 1 /\ str[1] = c

\* String.prototype.lastIndexOf with a one-character argument (0-based, -1)
LastIndexOf(str, c) ==
  LET I == {i \in 1..Len(str) : str[i] = c}
  IN  IF I = {} THEN -1 ELSE (CHOOSE i \in I : \A j \in I : j <= i) - 1

\* String.prototype.slice(a, b) for 0 <= a, 0 <= b (0-based, b exclusive)
Slice(str, a, b) ==
  LET e == IF b > Len(str) THEN Len(str) ELSE b
  IN  IF e <= a THEN <<>> ELSE SubSeq(str, a + 1, e)

\* String.prototype.slice(a) for 0 <= a
SliceFrom(str, a) == Slice(str, a, Len(str))

Digit(d) ==
  CASE d = 0 -> "0" [] d = 1 -> "1" [] d = 2 -> "2" [] d = 3 -> "3"
    [] d = 4 -> "4" [] d = 5 -> "5" [] d = 6 -> "6" [] d = 7 -> "7"
    [] d = 8 -> "8" [] OTHER -> "9"

\* String(n) of a non-negative integer: its decimal digits
RECURSIVE StringOf(_)
StringOf(n) ==
  IF n < 10 THEN <<Digit(n)>> ELSE StringOf(n \div 10) \o <<Digit(n % 10)>>

(***************************************************************************)
(* new RegExp(body, flags) and RegExp.prototype.exec, for patterns made of *)
(* literal characters, the assertions ^ and $, and backslash escapes of a  *)
(* character (no classes, groups or quantifiers), over texts without line  *)
(* breaks and without upper-case letters.                                  *)
(***************************************************************************)
RegExpFlagChars == {"d", "g", "i", "m", "s", "u", "v", "y"}

\* the flags the RegExp constructor accepts: known, not repeated, not u with v
FlagsValid(flags) ==
  /\ \A i \in 1..Len(flags) : flags[i] \in RegExpFlagChars
  /\ \A i, j \in 1..Len(flags) : i # j => flags[i] # flags[j]
  /\ ~(\E i, j \in 1..Len(flags) : flags[i] = "u" /\ flags[j] = "v")

RECURSIVE Atoms(_)
Atoms(p) ==
  IF p = <<>> THEN <<>>
  ELSE IF p[1] = "\\"
    THEN IF Len(p) = 1
           THEN <<[k |-> "bad", c |-> ""]>>
           ELSE <<[k |-> "lit", c |-> p[2]]>> \o Atoms(SubSeq(p, 3, Len(p)))
  ELSE IF p[1] = "^" THEN <<[k |-> "bol", c |-> ""]>> \o Atoms(Tail(p))
  ELSE IF p[1] = "$" THEN <<[k |-> "eol", c |-> ""]>> \o Atoms(Tail(p))
  ELSE <<[k |-> "lit", c |-> p[1]]>> \o Atoms(Tail(p))

\* whether new RegExp(body, flags) constructs (otherwise: SyntaxError)
RegExpValid(body, flags) ==
  /\ FlagsValid(flags)
  /\ \A i \in 1..Len(Atoms(body)) : Atoms(body)[i].k # "bad"

\* whether the atoms match the text from position pos (0-based)
RECURSIVE MatchAt(_, _, _)
MatchAt(atoms, text, pos) ==
  IF atoms = <<>> THEN TRUE
  ELSE LET a == Head(atoms)
       IN  CASE a.k = "bol" -> pos = 0 /\ MatchAt(Tail(atoms), text, pos)
             [] a.k = "eol" -> pos = Len(text) /\ MatchAt(Tail(atoms), text, pos)
             [] OTHER -> /\ pos < Len(text)
                         /\ text[pos + 1] = a.c
                         /\ MatchAt(Tail(atoms), text, pos + 1)

\* whether restoredRegex.exec(text) is not null, for a fresh RegExp
\* (lastIndex 0; the sticky flag y anchors the match at 0)
RegExpExec(body, flags, text) ==
  LET starts == IF \E i \in 1..Len(flags) : flags[i] = "y"
                  THEN {0} ELSE 0..Len(text)
  IN  \E pos \in starts : MatchAt(Atoms(body), text, pos)

(***************************************************************************)
(* Messages.  A message is a record of the fields the program reads.       *)
(***************************************************************************)
NoFile == [present |-> FALSE, thumb |-> FALSE, thumbnail |-> FALSE]

M0 ==
  [hasChat |-> TRUE, chat_id |-> 1, chat_type |-> "private",
   hasFrom |-> TRUE, from_id |-> 1, from_is_bot |-> FALSE,
   forward |-> FALSE, type |-> "", text |-> <<>>,
   reply_to_message |-> FALSE, entIsArray |-> FALSE, entities |-> <<>>,
   hasContact |-> FALSE, contact_user_id |-> 0,
   voice |-> FALSE, audio |-> FALSE,
   document |-> NoFile, video |-> NoFile, video_note |-> NoFile,
   photoIsArray |-> FALSE, photo |-> <<>>]

Absent == [absent |-> TRUE]

\* the result of a function that may throw
Return(v) == [kind |-> "return", value |-> v]
Throw(e) == [kind |-> "throw", value |-> e]

(***************************************************************************)
(* getMessageFromBody (lines 13-40).  A body is a record of the five       *)
(* top-level keys, each Absent or its payload; the payload of              *)
(* callback_query is [id, data, message], its message Absent or a message. *)
(***************************************************************************)
NoBody ==
  [message |-> Absent, edited_message |-> Absent, channel_post |-> Absent,
   callback_query |-> Absent, inline_query |-> Absent]

getMessageFromBody(body) ==
  LET pick ==
        IF body.message # Absent
          THEN [type |-> "message", message |-> body.message]
        ELSE IF body.edited_message # Absent
          THEN [type |-> "edited_message", message |-> body.edited_message]
        ELSE IF body.channel_post # Absent
          THEN [type |-> "channel_post", message |-> body.channel_post]
        ELSE IF body.callback_query # Absent
          THEN [type |-> "callback_query", message |-> body.callback_query.message]
        ELSE [type |-> "", message |-> Absent]
  IN  IF pick.type = "" THEN Throw("Unknown Telegram Body")
      ELSE IF pick.message = Absent THEN Throw("TypeError")
      ELSE Return([type |-> pick.type,
                   message |-> pick.message,
                   chatId |-> IF pick.message.hasChat
                                THEN StringOf(pick.message.chat_id)
                                ELSE S_undefined,
                   userId |-> IF pick.message.hasFrom
                                THEN StringOf(pick.message.from_id)
                                ELSE S_undefined])

(***************************************************************************)
(* getEventName (lines 48-89).  metadata.type is a string or S_undefined   *)
(* standing for the value undefined.                                       *)
(***************************************************************************)
\* lines 58-67, from the i-th key on
RECURSIVE ScanPatterns(_, _, _)
ScanPatterns(eventsList, i, text) ==
  IF i > Len(eventsList) THEN [kind |-> "nomatch", value |-> <<>>]
  ELSE LET str == eventsList[i]
           lastSlash == LastIndexOf(str, "/")
           body == Slice(str, 1, lastSlash)
           flags == SliceFrom(str, lastSlash + 1)
       IN  IF StartsWith(str, "/")
             THEN IF ~RegExpValid(body, flags) THEN Throw("SyntaxError")
                  ELSE IF RegExpExec(body, flags, text) THEN Return(str)
                  ELSE ScanPatterns(eventsList, i + 1, text)
             ELSE ScanPatterns(eventsList, i + 1, text)

\* lines 68-83
StructuralFallback(message, metadata) ==
  IF message.type = "edited_message" THEN Return(S_edited_message_text)
  ELSE IF message.reply_to_message THEN Return(S_reply_to_message)
  ELSE IF /\ message.entIsArray
          /\ \E i \in 1..Len(message.entities) : message.entities[i] = "mention"
    THEN Return(S_mention)
  ELSE IF /\ message.entIsArray
          /\ \E i \in 1..Len(message.entities) : message.entities[i] = "bot_command"
    THEN Return(S_bot_command)
  ELSE Return(metadata.type)

getEventName(message, metadata, eventsList) ==
  IF metadata.type = S_contact
    THEN IF ~message.hasFrom \/ ~message.hasContact THEN Throw("TypeError")
         ELSE IF ~message.from_is_bot /\ message.contact_user_id = message.from_id
           THEN Return(S_auth_by_contact)
         ELSE Return(S_contact)
  ELSE IF metadata.type = S_text
    THEN LET scan == ScanPatterns(eventsList, 1, message.text)
         IN  IF scan.kind = "nomatch" THEN StructuralFallback(message, metadata)
             ELSE scan
  ELSE Return(metadata.type)

(***************************************************************************)
(* extendMessage (lines 275-316) as the sequence of its suspension points: *)
(* each step is one await of getTelegramFile (for photo: of the            *)
(* Promise.all over the n variants that qualify); `throws` marks the step  *)
(* whose assignment target `<block>.thumb` is undefined, so that the       *)
(* assignment raises a TypeError once the await has resolved.              *)
(***************************************************************************)
Step(what, n, throws) == [what |-> what, n |-> n, throws |-> throws]

\* lines 279-285, 286-292, 308-314: the block's file, then its thumbnail
BlockSteps(what, block) ==
  IF ~block.present THEN <<>>
  ELSE <<Step(what, 1, FALSE)>> \o
       (IF block.thumb \/ block.thumbnail
          THEN <<Step(what, 1, ~block.thumb)>>
          ELSE <<>>)

\* lines 296-307: the variants with a positive file_size and a file_id
PhotoSteps(message) ==
  LET n == Cardinality({i \in 1..Len(message.photo) :
                          /\ message.photo[i].file_size > 0
                          /\ message.photo[i].file_id})
  IN  IF message.photoIsArray /\ n > 0 THEN <<Step("photo", n, FALSE)>> ELSE <<>>

ExtendSteps(message) ==
  (IF message.voice THEN <<Step("voice", 1, FALSE)>> ELSE <<>>)
  \o BlockSteps("document", message.document)
  \o BlockSteps("video", message.video)
  \o (IF message.audio THEN <<Step("audio", 1, FALSE)>> ELSE <<>>)
  \o PhotoSteps(message)
  \o BlockSteps("video_note", message.video_note)

(***************************************************************************)
(* The library's processUpdate finds metadata.type as the first message    *)
(* type whose field the message carries (the types this model carries, in  *)
(* the library's order).                                                   *)
(***************************************************************************)
MessageType(message) ==
  IF message.text # <<>> THEN S_text
  ELSE IF message.audio THEN S_audio
  ELSE IF message.hasContact THEN S_contact
  ELSE IF message.document.present THEN S_document
  ELSE IF message.photoIsArray /\ message.photo # <<>> THEN S_photo
  ELSE IF message.video.present THEN S_video
  ELSE IF message.video_note.present THEN S_video_note
  ELSE IF message.voice THEN S_voice
  ELSE S_undefined

(***************************************************************************)
(* Errors.  A failure of bot.getFile is the library's error carrying the   *)
(* HTTP response; the others carry none.                                   *)
(***************************************************************************)
FileError == "ETELEGRAM"
HandlerError == "HandlerError"

\* error?.response?.statusCode, 0 standing for undefined
StatusCodeOf(error) == IF error = FileError THEN 429 ELSE 0

\* a catch block that acknowledges whatever was thrown
ErrorStatus_Acknowledges(error) == 200

\* line 349: error?.response?.statusCode ?? 400
ErrorStatus(error) == IF StatusCodeOf(error) # 0 THEN StatusCodeOf(error) ELSE 400

(***************************************************************************)
(* The registries.  privateEvents[name] is a handler when name is an own   *)
(* key (every registered value is a function).                             *)
(***************************************************************************)
Has(events, name) == \E i \in 1..Len(events) : events[i] = name

ChatIds == {1, 2}

NoTransaction == [present |-> FALSE, messages |-> <<>>, timeoutId |-> 0]

\* a reset that forgets to cancel the timer it supersedes
ClearTimeout_Forgets(ts, timeoutId) == ts

\* clearTimeout(timeoutId)
ClearTimeout(ts, timeoutId) == {t \in ts : t.id # timeoutId}

Call(upd, scope, event, batch) ==
  [upd |-> upd, scope |-> scope, event |-> event, batch |-> batch, time |-> now]

Proc(id, kind, phase, pc, scope) ==
  [id |-> id, kind |-> kind, phase |-> phase, pc |-> pc, scope |-> scope]

Flush(id, key, batch, phase, pcs) ==
  [id |-> id, key |-> key, batch |-> batch, phase |-> phase, pcs |-> pcs]

Update(src, body, message, data, selfForward, processed) ==
  [src |-> src, time |-> now, body |-> body, msg |-> message, data |-> data,
   selfForward |-> selfForward, processed |-> processed]

\* this.bot.emit("error", error): the listener of line 263 calls onError
Emit(src, upd, batch, error) ==
  Append(errors, [src |-> src, upd |-> upd, batch |-> batch, error |-> error])

\* an async listener's promise rejects; the emitter drops the promise
Reject(upd, stage, error) ==
  Append(rejections, [upd |-> upd, stage |-> stage, error |-> error])

(***************************************************************************)
(* The "message" listener (lines 167-232).                                 *)
(***************************************************************************)
\* an aggregator that takes every forwarded message for a self-forward
IsSelfForward_AnyForward(message) == message.forward

\* line 168-169: a forwarded message whose chat is its sender
IsSelfForward(message) ==
  message.forward /\ message.chat_id = message.from_id

\* lines 170-204: append to the chat's transaction and restart its timer
ForwardArrival(id, message) ==
  LET key == message.chat_id
      old == transactionMessages[key]
      messages == IF old.present THEN old.messages ELSE <<>>
      kept == IF old.present THEN ClearTimeout(timers, old.timeoutId) ELSE timers
  IN  /\ timers' = kept \cup {[id |-> nextTimer, key |-> key,
                               deadline |-> now + FORWARD_TIME]}
      /\ nextTimer' = nextTimer + 1
      /\ transactionMessages' =
           [transactionMessages EXCEPT ![key] =
              [present |-> TRUE, messages |-> Append(messages, id),
               timeoutId |-> nextTimer]]

\* a dispatcher that falls back to the other registry and reports an
\* unknown event as an error
Dispatch_FallsBack(id, message, metadata, others) ==
  LET scope == IF message.chat_type = "private" THEN "private" ELSE "public"
      events == IF scope = "private" THEN privateEvents ELSE publicEvents
      other == IF scope = "private" THEN publicEvents ELSE privateEvents
      r == getEventName(message, metadata, events)
  IN  IF ~message.hasChat \/ r.kind = "throw"
        THEN /\ rejections' = Reject(id, "classify",
                                     IF message.hasChat THEN r.value ELSE "TypeError")
             /\ procs' = others
             /\ UNCHANGED <<calls, errors>>
      ELSE IF Has(events, r.value) \/ Has(other, r.value)
        THEN /\ calls' = Append(calls, Call(id, scope, r.value, <<>>))
             /\ procs' = others \cup {Proc(id, "message", "handler", 0, scope)}
             /\ UNCHANGED <<errors, rejections>>
      ELSE /\ procs' = others
           /\ errors' = Emit("message", id, <<>>, "UnknownEvent")
           /\ UNCHANGED <<calls, rejections>>

\* lines 209-231: scope by chat type, classify, look the handler up, invoke
Dispatch(id, message, metadata, others) ==
  LET scope == IF message.chat_type = "private" THEN "private" ELSE "public"
      events == IF scope = "private" THEN privateEvents ELSE publicEvents
      r == getEventName(message, metadata, events)
  IN  IF ~message.hasChat \/ r.kind = "throw"
        THEN /\ rejections' = Reject(id, "classify",
                                     IF message.hasChat THEN r.value ELSE "TypeError")
             /\ procs' = others
             /\ UNCHANGED <<calls, errors>>
      ELSE IF Has(events, r.value)
        THEN /\ calls' = Append(calls, Call(id, scope, r.value, <<>>))
             /\ procs' = others \cup {Proc(id, "message", "handler", 0, scope)}
             /\ UNCHANGED <<errors, rejections>>
      ELSE /\ procs' = others
           /\ UNCHANGED <<calls, errors, rejections>>

\* line 208: await this.extendMessage(message); suspended when a file is fetched
StartDispatch(id, message, metadata) ==
  IF ExtendSteps(message) = <<>>
    THEN Dispatch(id, message, metadata, procs)
    ELSE /\ procs' = procs \cup {Proc(id, "message", "resolving", 1, "")}
         /\ UNCHANGED <<calls, errors, rejections>>

\* the listener up to its first suspension
MessageListener(id, message, metadata) ==
  IF message.forward /\ (~message.hasChat \/ ~message.hasFrom)
    THEN /\ rejections' = Reject(id, "listener", "TypeError")
         /\ UNCHANGED <<transactionMessages, timers, nextTimer, procs, calls, errors>>
  ELSE IF IsSelfForward(message)
    THEN /\ ForwardArrival(id, message)
         /\ UNCHANGED <<procs, calls, errors, rejections>>
    ELSE /\ StartDispatch(id, message, metadata)
         /\ UNCHANGED <<transactionMessages, timers, nextTimer>>

\* line 339: the library emits "message" whenever update.message is set,
\* which `api` always does; the listener runs inside the call
ProcessUpdate(id, message) ==
  MessageListener(id, message, [type |-> MessageType(message)])

(***************************************************************************)
(* api (lines 334-351): one webhook request.                               *)
(***************************************************************************)
Api ==
  \E body \in pool :
    /\ Len(updates) < MaxUpdates
    /\ now + FORWARD_TIME <= MaxTime   \* a timer set now is due within the horizon
    /\ LET id == Len(updates) + 1
           r == getMessageFromBody(body)
       IN  IF r.kind = "throw"
             THEN /\ updates' = Append(updates, Update("api", body, M0, <<>>, FALSE, FALSE))
                  /\ responses' = Append(responses,
                                         [upd |-> id, status |-> ErrorStatus(r.value)])
                  /\ UNCHANGED <<transactionMessages, timers, nextTimer, procs,
                                 calls, errors, rejections>>
             ELSE LET message == [r.value.message EXCEPT !.type = r.value.type]
                  IN  /\ updates' = Append(updates,
                                           Update("api", body, message, <<>>,
                                                  IsSelfForward(message), TRUE))
                      /\ ProcessUpdate(id, message)
                      /\ responses' = Append(responses, [upd |-> id, status |-> 200])
    /\ UNCHANGED <<now, privateEvents, publicEvents, pool, flushes, probe>>

\* the continuation of the "message" listener when a getTelegramFile settles
DispatchResolve ==
  \E p \in procs, ok \in BOOLEAN :
    /\ p.kind = "message" /\ p.phase = "resolving"
    /\ LET message == updates[p.id].msg
           steps == ExtendSteps(message)
       IN  IF ~ok \/ steps[p.pc].throws
             THEN /\ rejections' =
                       Reject(p.id, "extend", IF ok THEN "TypeError" ELSE FileError)
                  /\ procs' = procs \ {p}
                  /\ UNCHANGED <<calls, errors>>
           ELSE IF p.pc = Len(steps)
             THEN Dispatch(p.id, message, [type |-> MessageType(message)],
                           procs \ {p})
           ELSE /\ procs' = (procs \ {p}) \cup {[p EXCEPT !.pc = @ + 1]}
                /\ UNCHANGED <<calls, errors, rejections>>
    /\ UNCHANGED <<now, privateEvents, publicEvents, pool, updates,
                   transactionMessages, timers, nextTimer, flushes, responses,
                   probe>>

\* lines 212-216, 223-227: the awaited handler settles; a failure is emitted
DispatchHandlerDone ==
  \E p \in procs, ok \in BOOLEAN :
    /\ p.kind = "message" /\ p.phase = "handler"
    /\ procs' = procs \ {p}
    /\ errors' = IF ok THEN errors ELSE Emit("message", p.id, <<>>, HandlerError)
    /\ UNCHANGED <<now, privateEvents, publicEvents, pool, updates,
                   transactionMessages, timers, nextTimer, flushes, calls,
                   rejections, responses, probe>>

(***************************************************************************)
(* The flush callback of the timer (lines 180-199).                        *)
(***************************************************************************)
\* a finally block that leaves the transaction in the table
DeleteTransaction_Keeps(key) == transactionMessages

DeleteTransaction(key) ==
  [transactionMessages EXCEPT ![key] = NoTransaction]

\* lines 190-192 and 195-197, once Promise.all has resolved: the handler is
\* invoked and awaited, or there is none and the finally block runs
FlushResolved(f, others) ==
  IF Has(privateEvents, S_message_forwards)
    THEN /\ calls' = Append(calls, Call(0, "private", S_message_forwards, f.batch))
         /\ flushes' = others \cup {[f EXCEPT !.phase = "handler"]}
         /\ UNCHANGED <<transactionMessages, errors>>
    ELSE /\ flushes' = others
         /\ transactionMessages' = DeleteTransaction(f.key)
         /\ UNCHANGED <<calls, errors>>

\* lines 193-197: catch emits the error, finally deletes the transaction
FlushFailed(f, others, error) ==
  /\ errors' = Emit("flush", 0, f.batch, error)
  /\ flushes' = others
  /\ transactionMessages' = DeleteTransaction(f.key)
  /\ UNCHANGED calls

\* lines 181-189: the callback of timer t, up to its first suspension
FlushCallback(t, rest) ==
  IF ~transactionMessages[t.key].present
    THEN /\ timers' = rest
         /\ UNCHANGED <<transactionMessages, flushes, calls, errors>>
    ELSE LET tr == transactionMessages[t.key]
             f == Flush(t.id, t.key, tr.messages, "resolving",
                        [i \in 1..Len(tr.messages) |-> 1])
             suspended == \E i \in 1..Len(tr.messages) :
                            ExtendSteps(updates[tr.messages[i]].msg) # <<>>
         IN  /\ timers' = ClearTimeout(rest, tr.timeoutId)
             /\ IF suspended
                  THEN /\ flushes' = flushes \cup {f}
                       /\ UNCHANGED <<transactionMessages, calls, errors>>
                  ELSE FlushResolved(f, flushes)

\* a timer that is due fires
TimerFire ==
  \E t \in timers :
    /\ t.deadline <= now
    /\ FlushCallback(t, timers \ {t})
    /\ UNCHANGED <<now, privateEvents, publicEvents, pool, updates, nextTimer,
                   procs, rejections, responses, probe>>

\* line 187-189: one getTelegramFile of one message of the batch settles
FlushResolve ==
  \E f \in flushes, ok \in BOOLEAN :
    /\ f.phase = "resolving"
    /\ \E i \in 1..Len(f.batch) :
         LET steps == ExtendSteps(updates[f.batch[i]].msg)
             pcs == [f.pcs EXCEPT ![i] = @ + 1]
         IN  /\ f.pcs[i] <= Len(steps)
             /\ IF ~ok \/ steps[f.pcs[i]].throws
                  THEN FlushFailed(f, flushes \ {f},
                                   IF ok THEN "TypeError" ELSE FileError)
                ELSE IF \A j \in 1..Len(f.batch) :
                          pcs[j] > Len(ExtendSteps(updates[f.batch[j]].msg))
                  THEN FlushResolved(f, flushes \ {f})
                ELSE /\ flushes' = (flushes \ {f}) \cup {[f EXCEPT !.pcs = pcs]}
                     /\ UNCHANGED <<transactionMessages, calls, errors>>
    /\ UNCHANGED <<now, privateEvents, publicEvents, pool, updates, timers,
                   nextTimer, procs, rejections, responses, probe>>

\* lines 191-197: the awaited message_forwards handler settles
FlushHandlerDone ==
  \E f \in flushes, ok \in BOOLEAN :
    /\ f.phase = "handler"
    /\ flushes' = flushes \ {f}
    /\ errors' = IF ok THEN errors ELSE Emit("flush", 0, f.batch, HandlerError)
    /\ transactionMessages' = DeleteTransaction(f.key)
    /\ UNCHANGED <<now, privateEvents, publicEvents, pool, updates, timers,
                   nextTimer, procs, calls, rejections, responses, probe>>

\* time passes, unless a timer is due
Tick ==
  /\ now + TickMs <= MaxTime
  /\ \A t \in timers : t.deadline > now
  /\ now' = now + TickMs
  /\ UNCHANGED <<privateEvents, publicEvents, pool, updates,
                 transactionMessages, timers, nextTimer, flushes, procs, calls,
                 errors, rejections, responses, probe>>

(***************************************************************************)
(* The channel_post, callback_query and inline_query listeners             *)
(* (lines 233-262): the handler is awaited outside any try.                *)
(***************************************************************************)
CallbackData == {<<"o","k">>, <<"n","o">>}
InlineChatTypes == {"private", "sender", "group", "supergroup", "channel"}

\* lines 233-237
OnChannelPost ==
  /\ Len(updates) < MaxUpdates
  /\ LET id == Len(updates) + 1
     IN  /\ updates' = Append(updates,
                              Update("channel_post", NoBody, M0, <<>>, FALSE, TRUE))
         /\ IF Has(publicEvents, S_channel_post)
              THEN /\ calls' = Append(calls, Call(id, "public", S_channel_post, <<>>))
                   /\ procs' = procs \cup
                                 {Proc(id, "channel_post", "handler", 0, "public")}
              ELSE UNCHANGED <<calls, procs>>
  /\ UNCHANGED <<now, privateEvents, publicEvents, pool, transactionMessages,
                 timers, nextTimer, flushes, errors, rejections, responses, probe>>

\* lines 238-251, up to the first handler that is registered
OnCallbackQuery ==
  \E data \in CallbackData :
    /\ Len(updates) < MaxUpdates
    /\ LET id == Len(updates) + 1
       IN  /\ updates' = Append(updates,
                                Update("callback_query", NoBody, M0, data, FALSE, TRUE))
           /\ IF Has(publicEvents, data)
                THEN /\ calls' = Append(calls, Call(id, "public", data, <<>>))
                     /\ procs' = procs \cup
                                   {Proc(id, "callback_query", "handler", 0, "public")}
              ELSE IF Has(privateEvents, data)
                THEN /\ calls' = Append(calls, Call(id, "private", data, <<>>))
                     /\ procs' = procs \cup
                                   {Proc(id, "callback_query", "handler", 0, "private")}
              ELSE UNCHANGED <<calls, procs>>
    /\ UNCHANGED <<now, privateEvents, publicEvents, pool, transactionMessages,
                   timers, nextTimer, flushes, errors, rejections, responses,
                   probe>>

\* lines 252-262
OnInlineQuery ==
  \E chat_type \in InlineChatTypes :
    /\ Len(updates) < MaxUpdates
    /\ LET id == Len(updates) + 1
           scope == IF chat_type \in {"private", "sender"} THEN "private"
                    ELSE IF chat_type \in {"group", "supergroup"} THEN "public"
                    ELSE ""
           events == IF scope = "private" THEN privateEvents ELSE publicEvents
       IN  /\ updates' = Append(updates,
                                Update("inline_query", NoBody,
                                       [M0 EXCEPT !.chat_type = chat_type],
                                       <<>>, FALSE, TRUE))
           /\ IF scope # "" /\ Has(events, S_inline_query)
                THEN /\ calls' = Append(calls, Call(id, scope, S_inline_query, <<>>))
                     /\ procs' = procs \cup
                                   {Proc(id, "inline_query", "handler", 0, scope)}
                ELSE UNCHANGED <<calls, procs>>
    /\ UNCHANGED <<now, privateEvents, publicEvents, pool, transactionMessages,
                   timers, nextTimer, flushes, errors, rejections, responses,
                   probe>>

\* the handler awaited by one of these listeners settles: a failure rejects
\* the listener's promise; after the public callback handler the private
\* one is looked up (lines 245-250)
ListenerHandlerDone ==
  \E p \in procs, ok \in BOOLEAN :
    /\ p.kind \in {"channel_post", "callback_query", "inline_query"}
    /\ p.phase = "handler"
    /\ IF ~ok
         THEN /\ rejections' = Reject(p.id, "handler", HandlerError)
              /\ procs' = procs \ {p}
              /\ UNCHANGED calls
       ELSE IF /\ p.kind = "callback_query" /\ p.scope = "public"
               /\ Has(privateEvents, updates[p.id].data)
         THEN /\ calls' = Append(calls,
                                 Call(p.id, "private", updates[p.id].data, <<>>))
              /\ procs' = (procs \ {p}) \cup {[p EXCEPT !.scope = "private"]}
              /\ UNCHANGED rejections
       ELSE /\ procs' = procs \ {p}
            /\ UNCHANGED <<calls, rejections>>
    /\ UNCHANGED <<now, privateEvents, publicEvents, pool, updates,
                   transactionMessages, timers, nextTimer, flushes, errors,
                   responses, probe>>

(***************************************************************************)
(* The classifier on its own: probe holds one input and, once Classify has *)
(* run, what getEventName gave for it.                                     *)
(***************************************************************************)
NoProbe == [fn |-> "none"]

Classify ==
  /\ probe.fn = "getEventName" /\ ~probe.done
  /\ probe' = [probe EXCEPT
                 !.done = TRUE,
                 !.out = getEventName(probe.message, probe.metadata,
                                      probe.eventsList)]
  /\ UNCHANGED <<now, privateEvents, publicEvents, pool, updates,
                 transactionMessages, timers, nextTimer, flushes, procs, calls,
                 errors, rejections, responses>>

(***************************************************************************)
(* Inputs: registry keys, texts, messages and webhook bodies.              *)
(***************************************************************************)
K_a == <<"/", "a", "/">>                              \* String(/a/)
K_ping == <<"/", "^", "\\", "/", "p", "$", "/">>      \* String(/^\/p$/)
K_p_sticky == <<"/", "p", "/", "y">>                  \* String(/p/y)
K_start == <<"/", "s", "t", "a", "r", "t">>           \* the plain name "/start"
D_ok == <<"o", "k">>

T_ping == <<"/", "p">>
T_a == <<"a">>
T_pa == <<"p", "a">>

KeyPool == {K_a, K_ping, K_p_sticky, K_start, S_text, S_mention}

RECURSIVE KeyLists(_)
KeyLists(n) ==
  IF n = 0 THEN {<<>>}
  ELSE KeyLists(n - 1) \cup
       {Append(l, k) : l \in {x \in KeyLists(n - 1) : Len(x) = n - 1},
                       k \in KeyPool}

TextMessages ==
  {[M0 EXCEPT !.text = t, !.type = ty, !.reply_to_message = r,
              !.entIsArray = (e # <<>>), !.entities = e] :
     t \in {T_ping, T_a, T_pa},
     ty \in {"message", "edited_message"},
     r \in BOOLEAN,
     e \in {<<>>, <<"mention">>, <<"bot_command">>, <<"bot_command", "mention">>}}

ContactMessages ==
  {[M0 EXCEPT !.hasContact = TRUE, !.contact_user_id = u, !.hasFrom = f,
              !.from_is_bot = b, !.type = "message"] :
     u \in {1, 2}, f \in BOOLEAN, b \in BOOLEAN}

OtherMessages ==
  {[M0 EXCEPT !.voice = TRUE, !.type = "message"],
   [M0 EXCEPT !.audio = TRUE, !.type = "message"]}

ClassifyInputs == TextMessages \cup ContactMessages \cup OtherMessages

MessageBody(message) == [NoBody EXCEPT !.message = message]

\* a message forwarded by chat c into its own chat, carrying a voice or a text
ForwardBody(c, v) ==
  MessageBody([M0 EXCEPT !.chat_id = c, !.from_id = c, !.forward = TRUE,
                         !.voice = v, !.text = IF v THEN <<>> ELSE T_a])

ForwardPool(c) == {ForwardBody(c, v) : v \in BOOLEAN}

TextBody(chat_type, t) ==
  MessageBody([M0 EXCEPT !.chat_type = chat_type, !.text = t])

VoiceBody(chat_type) ==
  MessageBody([M0 EXCEPT !.chat_type = chat_type, !.voice = TRUE])

DispatchPool ==
  {TextBody("private", T_ping), TextBody("group", T_a), VoiceBody("private"),
   MessageBody([M0 EXCEPT !.chat_id = 1, !.from_id = 2, !.forward = TRUE,
                          !.text = T_a])}

WebhookPool ==
  {NoBody,
   [NoBody EXCEPT !.inline_query = [id |-> 1]],
   [NoBody EXCEPT !.callback_query =
      [id |-> 1, data |-> D_ok, message |-> Absent]],
   [NoBody EXCEPT !.callback_query =
      [id |-> 1, data |-> D_ok, message |-> [M0 EXCEPT !.text = T_a]]],
   [NoBody EXCEPT !.edited_message = [M0 EXCEPT !.text = T_a]],
   [NoBody EXCEPT !.channel_post =
      [M0 EXCEPT !.chat_type = "channel", !.hasFrom = FALSE, !.text = T_a]],
   TextBody("private", T_ping),
   ForwardBody(1, FALSE)}

(***************************************************************************)
(* The state after construction, and the specifications.                   *)
(***************************************************************************)
InitWith(privates, publics, pools, probes) ==
  /\ now = 0
  /\ privateEvents \in privates
  /\ publicEvents \in publics
  /\ pool \in pools
  /\ updates = <<>>
  /\ transactionMessages = [c \in ChatIds |-> NoTransaction]
  /\ timers = {}
  /\ nextTimer = 1
  /\ flushes = {}
  /\ procs = {}
  /\ calls = <<>>
  /\ errors = <<>>
  /\ rejections = <<>>
  /\ responses = <<>>
  /\ probe \in probes

Registries ==
  {<<>>, <<K_ping, S_voice, S_channel_post, S_inline_query, D_ok>>}

Init ==
  InitWith(Registries \cup {<<S_message_forwards>>}, Registries,
           {ForwardPool(1) \cup ForwardPool(2) \cup DispatchPool \cup WebhookPool},
           {NoProbe})

Next ==
  \/ Api
  \/ DispatchResolve
  \/ DispatchHandlerDone
  \/ TimerFire
  \/ FlushResolve
  \/ FlushHandlerDone
  \/ Tick
  \/ OnChannelPost
  \/ OnCallbackQuery
  \/ OnInlineQuery
  \/ ListenerHandlerDone

Spec == Init /\ [][Next]_vars

\* the aggregator: the transport delivers the self-forwards of one chat
InitForward ==
  InitWith({<<S_message_forwards>>}, {<<>>},
           {ForwardPool(c) : c \in ChatIds}, {NoProbe})

NextForward ==
  \/ Api
  \/ TimerFire
  \/ FlushResolve
  \/ FlushHandlerDone
  \/ Tick

SpecForward == InitForward /\ [][NextForward]_vars

\* the dispatcher: ordinary messages through the webhook
InitDispatch == InitWith(Registries, Registries, {DispatchPool}, {NoProbe})

NextDispatch ==
  \/ Api
  \/ DispatchResolve
  \/ DispatchHandlerDone

SpecDispatch == InitDispatch /\ [][NextDispatch]_vars

\* every entry point that invokes a handler outside the aggregator
InitListeners ==
  InitWith(Registries, Registries, {{TextBody("private", T_ping)}}, {NoProbe})

NextListeners ==
  \/ Api
  \/ DispatchHandlerDone
  \/ OnChannelPost
  \/ OnCallbackQuery
  \/ OnInlineQuery
  \/ ListenerHandlerDone

SpecListeners == InitListeners /\ [][NextListeners]_vars

\* the classifier as a function of its inputs
InitClassify ==
  InitWith({<<>>}, {<<>>}, {{}},
           {[fn |-> "getEventName", done |-> FALSE, message |-> m,
             metadata |-> [type |-> MessageType(m)], eventsList |-> l,
             out |-> Return(<<>>)] :
              m \in ClassifyInputs, l \in KeyLists(MaxKeys)})

NextClassify == Classify

SpecClassify == InitClassify /\ [][NextClassify]_vars

\* the webhook: a burst of requests with bodies of every shape, recognised
\* or not, arriving before any timer is due
InitWebhook ==
  InitWith({<<K_ping, S_message_forwards>>}, {<<>>}, {WebhookPool}, {NoProbe})

NextWebhook ==
  \/ Api
  \/ DispatchHandlerDone

SpecWebhook == InitWebhook /\ [][NextWebhook]_vars

\* the constructor's options (lines 104-112): each is not given, or given
\* as an object with these own keys; `events` is the option that the test of
\* lines 366-375 gives
NotGiven == [given |-> FALSE, keys |-> <<>>]
Given(keys) == [given |-> TRUE, keys |-> keys]

Options(events, privates, publics) ==
  [events |-> events, privateEvents |-> privates, publicEvents |-> publics]

\* lines 109-110, 163-164: an option that is not given defaults to {}
OwnKeys(option) == IF option.given THEN option.keys ELSE <<>>

PingOptions ==
  {Options(Given(<<K_ping>>), NotGiven, NotGiven),
   Options(NotGiven, Given(<<K_ping>>), NotGiven),
   Options(NotGiven, Given(<<K_ping>>), Given(<<K_ping>>)),
   Options(NotGiven, Given(<<S_text, K_ping>>), NotGiven)}

PingPool ==
  {TextBody("private", T_ping), TextBody("private", T_a),
   TextBody("group", T_ping)}

\* the controller as constructed from its options; probe keeps the options
InitPing ==
  /\ InitWith({<<>>, <<K_ping>>, <<S_text, K_ping>>}, {<<>>, <<K_ping>>},
              {PingPool},
              {[fn |-> "constructor", options |-> o] : o \in PingOptions})
  /\ privateEvents = OwnKeys(probe.options.privateEvents)
  /\ publicEvents = OwnKeys(probe.options.publicEvents)

NextPing ==
  \/ Api
  \/ DispatchHandlerDone

SpecPing == InitPing /\ [][NextPing]_vars

\* routing: ordinary, forwarded and self-forwarded messages of several chat
\* types, with handlers for their event names in either registry
RoutingRegistries == {<<>>, <<K_ping, S_text, S_voice>>}

\* a forwarded post of a channel: it has no sender
ForwardedPostBody ==
  MessageBody([M0 EXCEPT !.chat_type = "channel", !.hasFrom = FALSE,
                         !.forward = TRUE, !.text = T_a])

RoutingPool == DispatchPool \cup {ForwardBody(1, FALSE), ForwardedPostBody}

InitRouting ==
  InitWith(RoutingRegistries, RoutingRegistries, {RoutingPool}, {NoProbe})

NextRouting ==
  \/ Api
  \/ DispatchResolve
  \/ DispatchHandlerDone

SpecRouting == InitRouting /\ [][NextRouting]_vars

\* enrichment: a document, video or video note with its thumbnail under
\* `thumb` or under `thumbnail`
FileKinds == {"document", "video", "video_note"}

FileBody(kind, thumb) ==
  LET block == [present |-> TRUE, thumb |-> thumb, thumbnail |-> ~thumb]
  IN  MessageBody(
        CASE kind = "document" -> [M0 EXCEPT !.document = block]
          [] kind = "video" -> [M0 EXCEPT !.video = block]
          [] OTHER -> [M0 EXCEPT !.video_note = block])

InitEnrich ==
  InitWith({<<S_document, S_video, S_video_note>>}, {<<>>},
           {{FileBody(kind, thumb) : thumb \in BOOLEAN} : kind \in FileKinds},
           {NoProbe})

NextEnrich ==
  \/ Api
  \/ DispatchResolve
  \/ DispatchHandlerDone

SpecEnrich == InitEnrich /\ [][NextEnrich]_vars

(***************************************************************************)
(* What the claims speak of.                                               *)
(***************************************************************************)
\* the self-forwards chat c has sent, as update ids
ForwardsOf(c) ==
  {i \in 1..Len(updates) : updates[i].selfForward /\ updates[i].msg.chat_id = c}

\* the invocations of the message_forwards handler with a batch of chat c
BatchCallsOf(c) ==
  {i \in 1..Len(calls) :
     /\ calls[i].event = S_message_forwards /\ calls[i].batch # <<>>
     /\ updates[calls[i].batch[1]].msg.chat_id = c}

\* nothing of chat c is pending: no timer, no flush under way
QuietChat(c) ==
  /\ \A t \in timers : t.key # c
  /\ \A f \in flushes : f.key # c

\* a flush of chat c failed while resolving attachments
ResolutionFailed(c) ==
  \E i \in 1..Len(errors) :
    /\ errors[i].src = "flush" /\ errors[i].error # HandlerError
    /\ updates[errors[i].batch[1]].msg.chat_id = c

FlushErrorsOf(c) ==
  {i \in 1..Len(errors) :
     errors[i].src = "flush" /\ updates[errors[i].batch[1]].msg.chat_id = c}

First(F) == CHOOSE i \in F : \A j \in F : i <= j
Last(F) == CHOOSE i \in F : \A j \in F : j <= i

\* chat c has sent exactly two self-forwards, less than FORWARD_TIME apart
TwoCloseForwards(c) ==
  /\ Cardinality(ForwardsOf(c)) = 2
  /\ updates[Last(ForwardsOf(c))].time - updates[First(ForwardsOf(c))].time
       < FORWARD_TIME

\* chat c has sent exactly two self-forwards, more than FORWARD_TIME apart
TwoDistantForwards(c) ==
  /\ Cardinality(ForwardsOf(c)) = 2
  /\ updates[Last(ForwardsOf(c))].time - updates[First(ForwardsOf(c))].time
       > FORWARD_TIME

HandlerRegistered == Has(privateEvents, S_message_forwards)

\* C1 as stated: when a chat's only two self-forwards arrived less than the
\* quiet period apart and nothing of the chat is pending any more, the
\* registered message_forwards handler has been invoked exactly once, no
\* earlier than FORWARD_TIME after the second arrival, with both messages in
\* arrival order.
C1_Original ==
  \A c \in ChatIds :
    (HandlerRegistered /\ TwoCloseForwards(c) /\ QuietChat(c)) =>
      /\ Cardinality(BatchCallsOf(c)) = 1
      /\ \A i \in BatchCallsOf(c) :
           /\ calls[i].batch = <<First(ForwardsOf(c)), Last(ForwardsOf(c))>>
           /\ calls[i].time >= updates[Last(ForwardsOf(c))].time + FORWARD_TIME

\* C1 (amended): when a chat's only two self-forwards arrived less than the
\* quiet period apart, the registered message_forwards handler is invoked at
\* most once, only with both messages in arrival order and no earlier than
\* FORWARD_TIME after the second arrival; once nothing of the chat is
\* pending it has been invoked exactly once if attachment resolution
\* succeeded, and not at all (the error being emitted instead) if it failed.
C1_TwoCloseForwardsOneBatch ==
  \A c \in ChatIds :
    (HandlerRegistered /\ TwoCloseForwards(c)) =>
      /\ Cardinality(BatchCallsOf(c)) <= 1
      /\ \A i \in BatchCallsOf(c) :
           /\ calls[i].batch = <<First(ForwardsOf(c)), Last(ForwardsOf(c))>>
           /\ calls[i].time >= updates[Last(ForwardsOf(c))].time + FORWARD_TIME
      /\ QuietChat(c) =>
           IF ResolutionFailed(c)
             THEN BatchCallsOf(c) = {} /\ Cardinality(FlushErrorsOf(c)) = 1
             ELSE Cardinality(BatchCallsOf(c)) = 1

\* two close self-forwards of one chat were flushed as one batch
C1_Witness ==
  \E c \in ChatIds :
    /\ HandlerRegistered /\ TwoCloseForwards(c) /\ QuietChat(c)
    /\ updates[Last(ForwardsOf(c))].time > updates[First(ForwardsOf(c))].time
    /\ \E i \in BatchCallsOf(c) :
         calls[i].batch = <<First(ForwardsOf(c)), Last(ForwardsOf(c))>>

\* C2: when a chat's only two self-forwards arrived more than the quiet
\* period apart and nothing of the chat is pending any more (no flush having
\* failed), the handler has been invoked twice: first with the first message
\* alone, then with the second alone.
C2_TwoDistantForwardsTwoBatches ==
  \A c \in ChatIds :
    (HandlerRegistered /\ TwoDistantForwards(c) /\ QuietChat(c)
       /\ FlushErrorsOf(c) = {}) =>
      /\ Cardinality(BatchCallsOf(c)) = 2
      /\ calls[First(BatchCallsOf(c))].batch = <<First(ForwardsOf(c))>>
      /\ calls[Last(BatchCallsOf(c))].batch = <<Last(ForwardsOf(c))>>

\* C3: no self-forwarded message is passed to the message_forwards handler
\* in two invocations.
C3_FlushedAtMostOnce ==
  \A i, j \in 1..Len(calls) :
    (i < j /\ calls[i].event = S_message_forwards
           /\ calls[j].event = S_message_forwards) =>
      \A a \in 1..Len(calls[i].batch), b \in 1..Len(calls[j].batch) :
        calls[i].batch[a] # calls[j].batch[b]

\* the calls, errors and rejections that belong to update i
CallsOf(i) == {k \in 1..Len(calls) : calls[k].upd = i}
ErrorsOf(i) == {k \in 1..Len(errors) : errors[k].upd = i}
RejectionsOf(i) == {k \in 1..Len(rejections) : rejections[k].upd = i}
StatusOf(i) == responses[CHOOSE k \in 1..Len(responses) : responses[k].upd = i].status

\* C4: a failure of a caller-supplied handler never escapes: no listener's
\* promise rejects with the handler's error (the failure is emitted on the
\* error channel instead).
C4_HandlerFailuresCaught ==
  \A k \in 1..Len(rejections) : rejections[k].error # HandlerError

\* C5: when attachment resolution fails for an ordinary update delivered
\* through api, no handler is invoked for it and the response status is a
\* client error, not 200.
C5_ResolutionFailureIsClientError ==
  \A i \in 1..Len(updates) :
    (/\ updates[i].src = "api"
     /\ \E k \in RejectionsOf(i) : rejections[k].stage = "extend") =>
      /\ CallsOf(i) = {}
      /\ StatusOf(i) >= 400 /\ StatusOf(i) < 500

\* C6: the handlers of ordinary updates are invoked in the order in which
\* the updates arrived.
C6_HandlersInArrivalOrder ==
  \A j, k \in 1..Len(calls) :
    (/\ j < k
     /\ calls[j].upd > 0 /\ updates[calls[j].upd].src = "api"
     /\ calls[k].upd > 0 /\ updates[calls[k].upd].src = "api") =>
      calls[j].upd < calls[k].upd

\* update i is an ordinary message whose attachments are resolved and whose
\* classified event name has no handler in the registry its chat type selects
UnhandledEvent(i) ==
  LET u == updates[i]
      events == IF u.msg.chat_type = "private" THEN privateEvents
                ELSE publicEvents
      r == getEventName(u.msg, [type |-> MessageType(u.msg)], events)
  IN  /\ u.src = "api" /\ u.processed /\ ~u.selfForward
      /\ \A p \in procs : ~(p.id = i /\ p.phase = "resolving")
      /\ \A k \in RejectionsOf(i) : rejections[k].stage # "extend"
      /\ r.kind = "return"
      /\ ~Has(events, r.value)

\* C9: an ordinary message whose classified event name has no handler in the
\* selected registry is dispatched without raising (no rejection, nothing
\* left running), without any handler invocation and without anything on
\* the error channel.
C9_NoHandlerNoOp ==
  \A i \in 1..Len(updates) :
    UnhandledEvent(i) =>
      /\ CallsOf(i) = {}
      /\ ErrorsOf(i) = {}
      /\ RejectionsOf(i) = {}
      /\ \A p \in procs : p.id # i

\* an unhandled event whose name the other registry does have a handler for
C9_Witness ==
  \E i \in 1..Len(updates) :
    /\ UnhandledEvent(i)
    /\ updates[i].msg.chat_type = "private"
    /\ privateEvents = <<>>
    /\ Has(publicEvents, K_ping)
    /\ updates[i].msg.text = T_ping

\* C7: the classifier is total: for every input it returns an event name; it
\* neither throws nor returns undefined.
C7_ClassifierTotal ==
  (probe.fn = "getEventName" /\ probe.done) =>
    /\ probe.out.kind = "return"
    /\ probe.out.value # S_undefined

\* key is String(regex) of a regular expression: /source/flags
IsSerializedPattern(key) ==
  /\ StartsWith(key, "/")
  /\ LastIndexOf(key, "/") > 1
  /\ RegExpValid(Slice(key, 1, LastIndexOf(key, "/")),
                 SliceFrom(key, LastIndexOf(key, "/") + 1))

\* the positions of the registered serialized patterns that match the text
MatchingPatterns(eventsList, text) ==
  {i \in 1..Len(eventsList) :
     /\ IsSerializedPattern(eventsList[i])
     /\ RegExpExec(Slice(eventsList[i], 1, LastIndexOf(eventsList[i], "/")),
                   SliceFrom(eventsList[i], LastIndexOf(eventsList[i], "/") + 1),
                   text)}

\* C8: for a text message that some registered serialized pattern matches, the
\* classifier returns the first such key in registration order, whatever
\* structural conditions (edit, reply, mention, bot_command) also apply.
C8_FirstMatchingPatternWins ==
  (/\ probe.fn = "getEventName" /\ probe.done
   /\ probe.metadata.type = S_text
   /\ MatchingPatterns(probe.eventsList, probe.message.text) # {}) =>
    probe.out =
      Return(probe.eventsList[First(MatchingPatterns(probe.eventsList,
                                                     probe.message.text))])

NoRecognizedKey(body) ==
  /\ body.message = Absent /\ body.edited_message = Absent
  /\ body.channel_post = Absent /\ body.callback_query = Absent

\* a step in which `api` has served one more request
C10_Step ==
  (/\ Len(updates') = Len(updates) + 1
   /\ updates'[Len(updates')].src = "api") =>
    LET u == updates'[Len(updates')]
        response == responses'[Len(responses')]
    IN  /\ Len(responses') = Len(responses) + 1
        /\ response.upd = Len(updates')
        /\ NoRecognizedKey(u.body) =>
             /\ ~u.processed
             /\ response.status = 400
             /\ UNCHANGED <<transactionMessages, timers, nextTimer, flushes,
                            procs, calls, errors, rejections>>
        /\ getMessageFromBody(u.body).kind = "return" =>
             /\ u.processed
             /\ response.status = 200

\* C10: a webhook body with none of the recognised keys is not handed to
\* processUpdate (no handler runs, no listener starts, the forward
\* transactions and timers stay as they are) and is answered with the status
\* carried by the thrown error, which carries none, hence 400; a body that
\* normalises is handed over and answered with 200.
C10_UnknownBodyRejected == [][C10_Step]_vars

\* a body without a recognised key was answered 400 while a forward
\* transaction was pending, and a body that normalises was answered 200
C10_Witness ==
  /\ transactionMessages[1].present
  /\ \E i, j \in 1..Len(updates) :
       /\ i < j
       /\ updates[i].selfForward
       /\ updates[j].src = "api" /\ NoRecognizedKey(updates[j].body)
       /\ StatusOf(j) = 400 /\ StatusOf(i) = 200

\* the invocations for update i of a handler of the given registry
ScopeCallsOf(i, scope) == {k \in CallsOf(i) : calls[k].scope = scope}

\* C11: for a callback query whose data is a key of both registries, once
\* its listener has finished, the public and the private handler have each
\* been invoked exactly once, whatever the outcome of the other handler.
C11_BothCallbackHandlersInvoked ==
  \A i \in 1..Len(updates) :
    (/\ updates[i].src = "callback_query"
     /\ Has(privateEvents, updates[i].data)
     /\ Has(publicEvents, updates[i].data)
     /\ \A p \in procs : p.id # i) =>
      /\ Cardinality(ScopeCallsOf(i, "public")) = 1
      /\ Cardinality(ScopeCallsOf(i, "private")) = 1

\* the self-forwards that some invocation of message_forwards has received
Delivered ==
  UNION {{calls[k].batch[a] : a \in 1..Len(calls[k].batch)} :
           k \in {j \in 1..Len(calls) : calls[j].event = S_message_forwards}}

\* the self-forwards that a flush under way is processing
InFlush == UNION {{f.batch[a] : a \in 1..Len(f.batch)} : f \in flushes}

\* the self-forwards held in the table entry of chat c
InTable(c) ==
  {transactionMessages[c].messages[a] :
     a \in 1..Len(transactionMessages[c].messages)}

\* C13: while a flush of a chat is in progress the table holds none of the
\* messages being flushed (the batch was removed first), and a self-forward
\* that is neither being flushed nor was flushed is held in the chat's table
\* entry (the entry of a fresh batch survives the flush in progress).
C13_BatchRemovedBeforeFlush ==
  /\ \A f \in flushes : InTable(f.key) \cap InFlush = {}
  /\ \A c \in ChatIds :
       \A i \in ForwardsOf(c) :
         (i \notin InFlush /\ i \notin Delivered /\ FlushErrorsOf(c) = {}) =>
           i \in InTable(c)

\* C14: the message_forwards handler is never invoked with a batch earlier
\* than FORWARD_TIME after the arrival of the latest self-forward of the
\* batch.
C14_Debounce ==
  \A k \in 1..Len(calls) :
    calls[k].event = S_message_forwards =>
      \A a \in 1..Len(calls[k].batch) :
        calls[k].time >= updates[calls[k].batch[a]].time + FORWARD_TIME

\* C19: once nothing of a chat is pending any more (no timer, no flush under
\* way, no table entry) and no flush of the chat has failed, every
\* self-forward the chat has sent has been passed to the handler.
C19_NoForwardLost ==
  \A c \in ChatIds :
    (/\ HandlerRegistered /\ QuietChat(c)
     /\ ~transactionMessages[c].present
     /\ FlushErrorsOf(c) = {}) =>
      ForwardsOf(c) \subseteq Delivered

\* C20: every pending timer is the one recorded in the table entry of its
\* chat, so each chat has at most one pending timer and none without an
\* entry.
C20_OnePendingTimerPerChat ==
  \A t \in timers :
    /\ transactionMessages[t.key].present
    /\ transactionMessages[t.key].timeoutId = t.id

\* the options give a handler under key, in `events` or in `privateEvents`
RegisteredAtConstruction(key) ==
  \/ Has(OwnKeys(probe.options.events), key)
  \/ Has(OwnKeys(probe.options.privateEvents), key)

\* C12: when a handler is given at construction under a serialized-pattern
\* key, every private-chat text message whose text matches the pattern
\* invokes a handler exactly once, the private one, under the event name
\* equal to the pattern key.
C12_PatternHandlerInvokedOnce ==
  \A i \in 1..Len(updates) :
    (/\ probe.fn = "constructor"
     /\ RegisteredAtConstruction(K_ping)
     /\ updates[i].src = "api"
     /\ updates[i].msg.chat_type = "private"
     /\ updates[i].msg.text = T_ping) =>
      /\ Cardinality(CallsOf(i)) = 1
      /\ \A k \in CallsOf(i) :
           calls[k].event = K_ping /\ calls[k].scope = "private"

\* flush f has ended in this step
FlushEnded(f) == \A g \in flushes' : g.id # f.id

\* a step of the aggregator, seen from the error channel and the table
C15_Step ==
  /\ \A f \in flushes :
       FlushEnded(f) =>
         /\ rejections' = rejections
         /\ ~transactionMessages'[f.key].present
         /\ \/ errors' = errors /\ f.phase = "handler"
            \/ /\ errors' = Append(errors, errors'[Len(errors')])
               /\ errors'[Len(errors')].src = "flush"
               /\ errors'[Len(errors')].batch = f.batch
  /\ errors' # errors => \E f \in flushes : FlushEnded(f)
  /\ \A c \in ChatIds :
       (~transactionMessages[c].present /\ transactionMessages'[c].present) =>
         /\ Len(updates') = Len(updates) + 1
         /\ transactionMessages'[c].messages = <<Len(updates')>>

\* C15: a flush that ends, by success or by a failure of resolution or of
\* the handler, rejects no promise, emits its failure on the error channel
\* once (nothing is emitted otherwise) and leaves its chat without a table
\* entry; a self-forward of a chat without an entry starts a batch holding
\* that message alone.
C15_FlushFailureContained == [][C15_Step]_vars

\* a flush of chat 1 failed, and the chat's next self-forward is alone in a
\* new batch
C15_Witness ==
  /\ flushes = {}
  /\ FlushErrorsOf(1) # {}
  /\ transactionMessages[1].present
  /\ Len(transactionMessages[1].messages) = 1
  /\ \A k \in FlushErrorsOf(1) :
       \A a \in 1..Len(errors[k].batch) :
         errors[k].batch[a] < transactionMessages[1].messages[1]

\* the registry that the chat type of a message selects
RegistryOf(message) ==
  IF message.chat_type = "private" THEN privateEvents ELSE publicEvents

\* update i has left extendMessage without a failure
Resolved(i) ==
  /\ \A p \in procs : ~(p.id = i /\ p.phase = "resolving")
  /\ \A k \in RejectionsOf(i) : rejections[k].stage # "extend"

FallbackName(message) ==
  IF message.type = "edited_message" THEN S_edited_message_text
  ELSE IF message.reply_to_message THEN S_reply_to_message
  ELSE IF \E a \in 1..Len(message.entities) : message.entities[a] = "mention"
    THEN S_mention
  ELSE IF \E a \in 1..Len(message.entities) : message.entities[a] = "bot_command"
    THEN S_bot_command
  ELSE S_text

\* C17: for a text message that no registered serialized pattern matches,
\* the classifier returns the first applicable name in the order
\* edited_message_text, reply_to_message, mention, bot_command, and "text"
\* otherwise.
C17_StructuralFallbackOrder ==
  (/\ probe.fn = "getEventName" /\ probe.done
   /\ probe.metadata.type = S_text
   /\ MatchingPatterns(probe.eventsList, probe.message.text) = {}) =>
    probe.out = Return(FallbackName(probe.message))

\* the block of update i that carries a file, if any
FileBlockOf(i) ==
  LET m == updates[i].msg
  IN  IF m.document.present THEN m.document
      ELSE IF m.video.present THEN m.video
      ELSE m.video_note

\* C18: for a document, video or video note that carries a thumbnail under
\* `thumb` or under `thumbnail`, enrichment consists of exactly two
\* resolutions (the attachment, then the thumbnail) and does not fail unless
\* a resolution fails.
C18_ThumbnailResolved ==
  \A i \in 1..Len(updates) :
    (/\ updates[i].src = "api"
     /\ FileBlockOf(i).present
     /\ FileBlockOf(i).thumb \/ FileBlockOf(i).thumbnail) =>
      /\ Len(ExtendSteps(updates[i].msg)) = 2
      /\ \A k \in RejectionsOf(i) : rejections[k].error # "TypeError"

====
